---- MODULE Spec2Model ----
(***************************************************************************)
(* Model of dstroot/postgres-api: the connection limiter                   *)
(* (middleware/connlimit, MaxAllowed) and the process lifecycle of         *)
(* main.run / main.main (start, select over errChan and sigs, graceful     *)
(* shutdown with a 5 second deadline, exit status).                        *)
(***************************************************************************)
EXTENDS Naturals, Integers, Sequences, FiniteSets, TLC

(* ------------------------------ bounds -------------------------------- *)

\* Number of requests the clients send during one run of the process.
MaxReqs == 3

\* Largest capacity n handed to MaxAllowed(n) (the application passes 50).
MaxCap == 2

\* Number of SIGINT/SIGTERM deliveries during one run of the process.
MaxSignals == 2

Reqs == 1..MaxReqs

\* Longest id parameter of a /product/:id request, in characters.
MaxIdLen == 2

\* Most rows the products table is given: the largest id the sequence
\* products_id_seq hands out.
MaxRows == 2

(* ------------------------- program constants -------------------------- *)

\* sigs := make(chan os.Signal, 1)
SigsCap == 1

\* errChan := make(chan error, 5)
ErrChanCap == 5

(* ------------------------------ values -------------------------------- *)

Signals == {"SIGINT", "SIGTERM"}

\* http.ErrServerClosed, the sentinel ListenAndServe returns after Shutdown.
ErrServerClosed == "http: Server closed"

\* Errors ListenAndServe returns otherwise: the listener cannot be bound, or
\* Accept fails while serving.
BindErr == "listen tcp: address already in use"
AcceptErr == "accept tcp: use of closed network connection"

\* ctx.Err() once the 5 second deadline has passed.
DeadlineExceeded == "context deadline exceeded"

\* The error of closing the listener, which Shutdown returns when the
\* connections are idle.
CloseErr == "close tcp: listener close failed"

Nil == "nil"

\* errors.Wrap(err, msg): the stage message and the underlying cause.
Wrap(err, msg) == [stage |-> msg, cause |-> err]

NoErr == [stage |-> "", cause |-> ""]

\* A line of the process log.
LogLine(level, msg, cause) == [level |-> level, msg |-> msg, cause |-> cause]

VersionLog == LogLine("INFO", "formattedVersion", "")
StartingLog == LogLine("INFO", "Starting server on port", "")
SignalLog == LogLine("INFO", "Shutdown signal received, exiting...", "")
StoppedLog == LogLine("INFO", "Server gracefully stopped.", "")
FatalLog(err) == LogLine("FATAL", err.stage, err.cause)

\* The ways app.Initialize can fail, and its success.
InitFailures == {"configuration decode failed",
                 "database connection failed",
                 "error pinging database"}

(* ------------------------------ state --------------------------------- *)

VARIABLES
    ctl,            \* position of the goroutine running main/run
    runErr,         \* the error run returns to main (NoErr while none)
    exitCode,       \* -1 while the process lives, else its exit status
    log,            \* the lines logged so far
    db,             \* api.DB: "nil", "open" or "closed"
    notified,       \* signal.Notify has registered sigs
    sigs,           \* the buffered signal channel
    nsig,           \* signals delivered to the process so far
    errChan,        \* the buffered server error channel
    srv,            \* the goroutine running ListenAndServe
    listener,       \* the server's listener: "none", "open", "closed"
    inShutdown,     \* the server's inShutdown flag, set by Shutdown
    ctx,            \* the deadline context of the signal branch
    busyAtDeadline, \* a request was in flight once the deadline had passed
    shutRes,        \* the results of the Shutdown calls made so far
    lnerr,          \* the listener close error of the running Shutdown call
    limiter,        \* what MaxAllowed(n) returned, with n
    sem,            \* number of tokens in the limiter's channel
    pc,             \* position of each request in the middleware stack
    resp,           \* who wrote each request's response
    invoked,        \* times the limiter called next(w, r) for each request
    cancelled,      \* the client of a waiting request has gone away
    table,          \* the rows of the products table, by id
    serial,         \* the next value of the sequence products_id_seq
    call,           \* the last request a route handler was called with
    reply,          \* the status code and JSON body it responded with
    manyArgs,       \* start and count of the last model.GetMany call
    helper          \* where the ClearTable or AddTestData under way stands

vars == <<ctl, runErr, exitCode, log, db, notified, sigs, nsig, errChan, srv,
          listener, inShutdown, ctx, busyAtDeadline, shutRes, lnerr,
          limiter, sem, pc, resp, invoked, cancelled, table, serial, call,
          reply, manyArgs, helper>>

ctlVars == <<ctl, runErr, exitCode, log, db, notified>>
chanVars == <<sigs, nsig, errChan>>
srvVars == <<srv, listener, inShutdown>>
ctxVars == <<ctx, busyAtDeadline, shutRes, lnerr>>
reqVars == <<sem, pc, resp, invoked, cancelled>>
apiVars == <<table, serial, call, reply, manyArgs, helper>>

(* ---------------------------- the limiter ----------------------------- *)

\* MaxAllowed(n): sem := make(chan struct{}, n) and the wrapping handler.
\* There is no check of n and no error result.
MaxAllowed(n) == [kind |-> "handler", cap |-> n]

NoLimiter == [kind |-> "none", cap |-> 0]

\* The process is alive: its goroutines can take steps.
Alive == exitCode = -1

\* Requests whose connection is active: past arrival, response not complete.
InFlight == {r \in Reqs : pc[r] \in {"acquire", "next", "hung", "release"}}

\* Requests inside the wrapped handler chain: slot acquired, not released.
Inside == {r \in Reqs : pc[r] \in {"next", "hung", "release"}}

\* A client's request reaches the middleware stack of the serving server
\* (the listener accepts until Shutdown closes it).
Arrive(r) ==
    /\ Alive
    /\ srv = "serving" /\ listener = "open" /\ ~inShutdown
    /\ pc[r] = "idle"
    /\ pc' = [pc EXCEPT ![r] = "acquire"]
    /\ busyAtDeadline' = (busyAtDeadline \/ ctx = "done")
    /\ UNCHANGED <<sem, resp, invoked, ctlVars, chanVars, srvVars, ctx,
                   shutRes, lnerr, limiter, cancelled, apiVars>>

\* acquire() with the capacity test off by one: a token is sent although
\* the channel already holds cap tokens.
acquireOverfill(r) ==
    /\ Alive
    /\ pc[r] = "acquire"
    /\ sem <= limiter.cap
    /\ sem' = sem + 1
    /\ pc' = [pc EXCEPT ![r] = "next"]
    /\ invoked' = [invoked EXCEPT ![r] = @ + 1]
    /\ UNCHANGED <<resp, ctlVars, chanVars, srvVars, ctxVars, limiter,
                   cancelled, apiVars>>

\* acquire() as a non-blocking send: when the channel is full the limiter
\* answers the request itself (503) and never calls next.
acquireOrReject(r) ==
    /\ Alive
    /\ pc[r] = "acquire"
    /\ IF sem < limiter.cap
       THEN /\ sem' = sem + 1
            /\ pc' = [pc EXCEPT ![r] = "next"]
            /\ invoked' = [invoked EXCEPT ![r] = @ + 1]
            /\ UNCHANGED resp
       ELSE /\ pc' = [pc EXCEPT ![r] = "done"]
            /\ resp' = [resp EXCEPT ![r] = "limiter"]
            /\ UNCHANGED <<sem, invoked>>
    /\ UNCHANGED <<ctlVars, chanVars, srvVars, ctxVars, limiter, cancelled,
                   apiVars>>

\* The wrapper with release() misplaced before next(w, r): the token is
\* taken and given back at once, and the handler runs holding no slot.
acquireReleaseEarly(r) ==
    /\ Alive
    /\ pc[r] = "acquire"
    /\ sem < limiter.cap
    /\ pc' = [pc EXCEPT ![r] = "next"]
    /\ invoked' = [invoked EXCEPT ![r] = @ + 1]
    /\ UNCHANGED <<sem, resp, ctlVars, chanVars, srvVars, ctxVars, limiter,
                   cancelled, apiVars>>

\* acquire(): sem <- struct{}{} blocks while the channel holds cap tokens
\* (with cap = 0 the channel is unbuffered and nobody receives: it blocks
\* forever); then next(w, r) is called.
acquire(r) ==
    /\ Alive
    /\ pc[r] = "acquire"
    /\ sem < limiter.cap
    /\ sem' = sem + 1
    /\ pc' = [pc EXCEPT ![r] = "next"]
    /\ invoked' = [invoked EXCEPT ![r] = @ + 1]
    /\ UNCHANGED <<resp, ctlVars, chanVars, srvVars, ctxVars, limiter,
                   cancelled, apiVars>>

\* next(w, r) returns normally: the handlers wrote the response.
NextReturn(r) ==
    /\ Alive
    /\ pc[r] = "next"
    /\ pc' = [pc EXCEPT ![r] = "release"]
    /\ resp' = [resp EXCEPT ![r] = "handler"]
    /\ UNCHANGED <<sem, invoked, ctlVars, chanVars, srvVars, ctxVars, limiter,
                   cancelled, apiVars>>

\* The wrapper with a deferred release: the panic still reaches Recovery,
\* but the token is received from the channel on the way.
NextPanicDeferred(r) ==
    /\ Alive
    /\ pc[r] = "next"
    /\ sem' = sem - 1
    /\ pc' = [pc EXCEPT ![r] = "done"]
    /\ resp' = [resp EXCEPT ![r] = "recovery"]
    /\ UNCHANGED <<invoked, ctlVars, chanVars, srvVars, ctxVars, limiter,
                   cancelled, apiVars>>

\* next(w, r) panics: release() is not deferred, so the panic unwinds
\* past it to negroni's Recovery, which answers 500.
NextPanic(r) ==
    /\ Alive
    /\ pc[r] = "next"
    /\ pc' = [pc EXCEPT ![r] = "done"]
    /\ resp' = [resp EXCEPT ![r] = "recovery"]
    /\ UNCHANGED <<sem, invoked, ctlVars, chanVars, srvVars, ctxVars, limiter,
                   cancelled, apiVars>>

\* next(w, r) never returns (a handler that hangs).
NextHang(r) ==
    /\ Alive
    /\ pc[r] = "next"
    /\ pc' = [pc EXCEPT ![r] = "hung"]
    /\ UNCHANGED <<sem, resp, invoked, ctlVars, chanVars, srvVars, ctxVars,
                   limiter, cancelled, apiVars>>

\* release() that forgets to receive from the channel.
releaseLeak(r) ==
    /\ Alive
    /\ pc[r] = "release"
    /\ pc' = [pc EXCEPT ![r] = "done"]
    /\ UNCHANGED <<sem, resp, invoked, ctlVars, chanVars, srvVars, ctxVars,
                   limiter, cancelled, apiVars>>

\* release(): <-sem blocks while the channel is empty; then the request ends.
release(r) ==
    /\ Alive
    /\ pc[r] = "release"
    /\ sem > 0
    /\ sem' = sem - 1
    /\ pc' = [pc EXCEPT ![r] = "done"]
    /\ UNCHANGED <<resp, invoked, ctlVars, chanVars, srvVars, ctxVars,
                   limiter, cancelled, apiVars>>

\* The client of a request that waits for a slot (the channel is full)
\* goes away, or its deadline passes: the transport cancels r.Context().
\* The wrapper never looks at the context: the goroutine stays blocked in
\* sem <- struct{}{}.
Cancel(r) ==
    /\ Alive
    /\ pc[r] = "acquire"
    /\ sem >= limiter.cap
    /\ ~cancelled[r]
    /\ cancelled' = [cancelled EXCEPT ![r] = TRUE]
    /\ UNCHANGED <<sem, pc, resp, invoked, ctlVars, chanVars, srvVars, ctxVars,
                   limiter, apiVars>>

(* --------------------------- run and main ----------------------------- *)

\* run without the return after a failed Initialize: the error is kept but
\* the start-up goes on.
InitializeNoReturn ==
    /\ Alive
    /\ ctl = "init"
    /\ \/ \E why \in InitFailures :
            /\ runErr' = Wrap(why, "initialization error")
            /\ db' = IF why = "error pinging database" THEN "open" ELSE "nil"
            /\ limiter' = MaxAllowed(1)
            /\ ctl' = "setup"
       \/ \E n \in 0..MaxCap :
            /\ limiter' = MaxAllowed(n)
            /\ db' = "open"
            /\ ctl' = "setup"
            /\ UNCHANGED runErr
    /\ UNCHANGED <<exitCode, log, notified, chanVars, srvVars, ctxVars,
                   reqVars, apiVars>>

\* api, err := app.Initialize(): on failure run returns "initialization
\* error" at once; on success the database is open, the limiter is built
\* and api.DB.Close is deferred.
Initialize ==
    /\ Alive
    /\ ctl = "init"
    /\ \/ \E why \in InitFailures :
            /\ runErr' = Wrap(why, "initialization error")
            /\ db' = IF why = "error pinging database" THEN "open" ELSE "nil"
            /\ ctl' = "main"
            /\ UNCHANGED limiter
       \/ \E n \in 0..MaxCap :
            /\ limiter' = MaxAllowed(n)
            /\ db' = "open"
            /\ ctl' = "setup"
            /\ UNCHANGED runErr
    /\ UNCHANGED <<exitCode, log, notified, chanVars, srvVars, ctxVars,
                   reqVars, apiVars>>

\* routes, sigs, signal.Notify, errChan and the two start-up log lines.
Setup ==
    /\ Alive
    /\ ctl = "setup"
    /\ notified' = TRUE
    /\ log' = log \o <<VersionLog, StartingLog>>
    /\ ctl' = "go"
    /\ UNCHANGED <<runErr, exitCode, db, chanVars, srvVars, ctxVars, limiter,
                   reqVars, apiVars>>

\* go func() { errChan <- api.Server.ListenAndServe() }()
GoServe ==
    /\ Alive
    /\ ctl = "go"
    /\ srv' = "starting"
    /\ ctl' = "select"
    /\ UNCHANGED <<runErr, exitCode, log, db, notified, chanVars, listener,
                   inShutdown, ctxVars, limiter, reqVars, apiVars>>

\* A handler of signals that ends the process at once when a signal comes
\* after the shutdown branch was entered.
SignalForceExit(s) ==
    /\ Alive
    /\ notified
    /\ nsig < MaxSignals
    /\ nsig' = nsig + 1
    /\ sigs' = IF Len(sigs) < SigsCap THEN Append(sigs, s) ELSE sigs
    /\ IF ctx # "none"
       THEN exitCode' = 1 /\ ctl' = "exited"
       ELSE UNCHANGED <<exitCode, ctl>>
    /\ UNCHANGED <<errChan, runErr, log, db, notified, srvVars, ctxVars,
                   limiter, reqVars, apiVars>>

\* The operating system delivers SIGINT or SIGTERM: signal.Notify sends
\* without blocking, so the signal is dropped when sigs is full.
Signal(s) ==
    /\ Alive
    /\ notified
    /\ nsig < MaxSignals
    /\ nsig' = nsig + 1
    /\ sigs' = IF Len(sigs) < SigsCap THEN Append(sigs, s) ELSE sigs
    /\ UNCHANGED <<errChan, ctlVars, srvVars, ctxVars, limiter, reqVars,
                   apiVars>>

\* api.Server.ListenAndServe() in its goroutine, and the send of its result
\* on errChan. It binds the listener or fails to; once serving it ends with
\* ErrServerClosed after Shutdown, or with the error of a failed Accept.
ListenAndServe ==
    /\ Alive
    /\ Len(errChan) < ErrChanCap
    /\ \/ /\ srv = "starting" /\ ~inShutdown
          /\ srv' = "serving"
          /\ listener' = "open"
          /\ UNCHANGED <<errChan, inShutdown>>
       \/ /\ srv = "starting" /\ ~inShutdown
          /\ srv' = "returned"
          /\ errChan' = Append(errChan, BindErr)
          /\ UNCHANGED <<listener, inShutdown>>
       \/ /\ srv \in {"starting", "serving"} /\ inShutdown
          /\ srv' = "returned"
          /\ errChan' = Append(errChan, ErrServerClosed)
          /\ UNCHANGED <<listener, inShutdown>>
       \/ /\ srv = "serving" /\ ~inShutdown
          /\ srv' = "returned"
          /\ listener' = "closed"
          /\ errChan' = Append(errChan, AcceptErr)
          /\ UNCHANGED inShutdown
    /\ UNCHANGED <<sigs, nsig, ctlVars, ctxVars, limiter, reqVars, apiVars>>

\* The select's error case with the comparison inverted: only
\* ErrServerClosed makes run return.
SelectErrInverted ==
    /\ Alive
    /\ ctl = "select"
    /\ errChan # <<>>
    /\ errChan' = Tail(errChan)
    /\ IF Head(errChan) = ErrServerClosed
       THEN /\ runErr' = Wrap(Head(errChan), "http server error")
            /\ ctl' = "defers"
       ELSE UNCHANGED <<runErr, ctl>>
    /\ UNCHANGED <<exitCode, log, db, notified, sigs, nsig, srvVars, ctxVars,
                   limiter, reqVars, apiVars>>

\* The error branch ending the process itself (log.Fatalf in the place of
\* the return): the line is logged and the process exits 1 inside run.
SelectErrFatalf ==
    /\ Alive
    /\ ctl = "select"
    /\ errChan # <<>>
    /\ errChan' = Tail(errChan)
    /\ IF Head(errChan) # ErrServerClosed
       THEN /\ log' = Append(log, LogLine("FATAL", "listen", Head(errChan)))
            /\ exitCode' = 1
            /\ ctl' = "exited"
       ELSE UNCHANGED <<log, exitCode, ctl>>
    /\ UNCHANGED <<runErr, db, notified, sigs, nsig, srvVars, ctxVars,
                   limiter, reqVars, apiVars>>

\* case err := <-errChan: any error but ErrServerClosed makes run return
\* "http server error"; ErrServerClosed goes round the loop again.
SelectErr ==
    /\ Alive
    /\ ctl = "select"
    /\ errChan # <<>>
    /\ errChan' = Tail(errChan)
    /\ IF Head(errChan) # ErrServerClosed
       THEN /\ runErr' = Wrap(Head(errChan), "http server error")
            /\ ctl' = "defers"
       ELSE UNCHANGED <<runErr, ctl>>
    /\ UNCHANGED <<exitCode, log, db, notified, sigs, nsig, srvVars, ctxVars,
                   limiter, reqVars, apiVars>>

\* A select that prefers the error channel: the signal branch is taken
\* only while errChan is empty.
SelectSigAfterErr ==
    /\ Alive
    /\ ctl = "select"
    /\ errChan = <<>>
    /\ sigs # <<>>
    /\ sigs' = Tail(sigs)
    /\ log' = Append(log, SignalLog)
    /\ ctx' = "active"
    /\ ctl' = "shutdown1"
    /\ UNCHANGED <<runErr, exitCode, db, notified, nsig, errChan, srvVars,
                   busyAtDeadline, shutRes, lnerr, limiter, reqVars, apiVars>>

\* case <-sigs: log the signal, make the 5 second deadline context and
\* defer its cancel.
SelectSig ==
    /\ Alive
    /\ ctl = "select"
    /\ sigs # <<>>
    /\ sigs' = Tail(sigs)
    /\ log' = Append(log, SignalLog)
    /\ ctx' = "active"
    /\ ctl' = "shutdown1"
    /\ UNCHANGED <<runErr, exitCode, db, notified, nsig, errChan, srvVars,
                   busyAtDeadline, shutRes, lnerr, limiter, reqVars, apiVars>>

\* A deadline that reaches into the limiter: when the timer fires, the
\* requests waiting for a slot are woken and ended without their handler.
DeadlineExpireAbort ==
    /\ Alive
    /\ ctx = "active"
    /\ ctx' = "done"
    /\ busyAtDeadline' = (InFlight # {})
    /\ pc' = [r \in Reqs |-> IF pc[r] = "acquire" THEN "done" ELSE pc[r]]
    /\ UNCHANGED <<shutRes, lnerr, ctlVars, chanVars, srvVars, limiter,
                   sem, resp, invoked, cancelled, apiVars>>

\* The 5 second timer of the context fires; busyAtDeadline records whether a
\* request is still in flight then (Arrive records one that comes later).
DeadlineExpire ==
    /\ Alive
    /\ ctx = "active"
    /\ ctx' = "done"
    /\ busyAtDeadline' = (InFlight # {})
    /\ UNCHANGED <<shutRes, lnerr, ctlVars, chanVars, srvVars, limiter,
                   reqVars, apiVars>>

\* The two calls of api.Server.Shutdown(ctx) in the signal branch.
ShutdownCalls == {1, 2}
CallPc(k) == IF k = 1 THEN "shutdown1" ELSE "shutdown2"
PollPc(k) == IF k = 1 THEN "poll1" ELSE "poll2"
SleepPc(k) == IF k = 1 THEN "sleep1" ELSE "sleep2"

\* The signal branch without the check of Shutdown's error: whatever the
\* second call returns, the server is logged as stopped and os.Exit(0) runs.
ShutdownResultIgnored(k, res) ==
    /\ shutRes' = Append(shutRes, res)
    /\ IF k = 1
       THEN /\ ctl' = CallPc(2)
            /\ UNCHANGED <<runErr, log, exitCode>>
       ELSE /\ log' = Append(log, StoppedLog)
            /\ exitCode' = 0
            /\ ctl' = "exited"
            /\ UNCHANGED runErr

\* The signal branch without os.Exit(0): after the graceful log line the
\* for loop goes round to the select again.
ShutdownResultLoop(k, res) ==
    /\ shutRes' = Append(shutRes, res)
    /\ IF k = 1
       THEN /\ ctl' = CallPc(2)
            /\ UNCHANGED <<runErr, log, exitCode>>
       ELSE IF res # Nil
            THEN /\ runErr' = Wrap(res, "server could not shutdown")
                 /\ ctl' = "defers"
                 /\ UNCHANGED <<log, exitCode>>
            ELSE /\ log' = Append(log, StoppedLog)
                 /\ ctl' = "select"
                 /\ UNCHANGED <<runErr, exitCode>>

\* What follows the return of call k with result res: the result of the
\* first call is dropped; an error of the second makes run return "server
\* could not shutdown"; success of the second logs and calls os.Exit(0).
ShutdownResult(k, res) ==
    /\ shutRes' = Append(shutRes, res)
    /\ IF k = 1
       THEN /\ ctl' = CallPc(2)
            /\ UNCHANGED <<runErr, log, exitCode>>
       ELSE IF res # Nil
            THEN /\ runErr' = Wrap(res, "server could not shutdown")
                 /\ ctl' = "defers"
                 /\ UNCHANGED <<log, exitCode>>
            ELSE /\ log' = Append(log, StoppedLog)
                 /\ exitCode' = 0
                 /\ ctl' = "exited"
                 /\ UNCHANGED runErr

\* The second Shutdown call given a context of its own: a new 5 second
\* deadline starts when it is entered.
ShutdownCallFreshCtx(k) ==
    /\ Alive
    /\ ctl = CallPc(k)
    /\ inShutdown' = TRUE
    /\ IF listener = "open"
       THEN /\ listener' = "closed"
            /\ lnerr' \in {Nil, CloseErr}
       ELSE /\ lnerr' = Nil
            /\ UNCHANGED listener
    /\ ctx' = IF k = 2 THEN "active" ELSE ctx
    /\ ctl' = PollPc(k)
    /\ UNCHANGED <<runErr, exitCode, log, db, notified, chanVars, srv,
                   busyAtDeadline, shutRes, limiter, reqVars, apiVars>>

\* Shutdown(ctx) is entered: inShutdown is set and the listener is closed.
ShutdownCall(k) ==
    /\ Alive
    /\ ctl = CallPc(k)
    /\ inShutdown' = TRUE
    /\ IF listener = "open"
       THEN /\ listener' = "closed"
            /\ lnerr' \in {Nil, CloseErr}
       ELSE /\ lnerr' = Nil
            /\ UNCHANGED listener
    /\ ctl' = PollPc(k)
    /\ UNCHANGED <<runErr, exitCode, log, db, notified, chanVars, srv, ctx,
                   busyAtDeadline, shutRes, limiter, reqVars, apiVars>>

\* A shutdown that does not wait for the connections (Server.Close in the
\* place of Server.Shutdown): it returns at once.
ShutdownPollNoWait(k) ==
    /\ Alive
    /\ ctl = PollPc(k)
    /\ ShutdownResult(k, lnerr)
    /\ UNCHANGED <<db, notified, chanVars, srvVars, ctx, busyAtDeadline,
                   lnerr, limiter, reqVars, apiVars>>

\* Shutdown's loop: when every connection is idle it returns the listener
\* close error (nil as a rule); otherwise it waits.
ShutdownPoll(k) ==
    /\ Alive
    /\ ctl = PollPc(k)
    /\ IF InFlight = {}
       THEN ShutdownResult(k, lnerr)
       ELSE /\ ctl' = SleepPc(k)
            /\ UNCHANGED <<runErr, log, exitCode, shutRes>>
    /\ UNCHANGED <<db, notified, chanVars, srvVars, ctx, busyAtDeadline,
                   lnerr, limiter, reqVars, apiVars>>

\* case <-timer.C: poll again.
ShutdownTimer(k) ==
    /\ Alive
    /\ ctl = SleepPc(k)
    /\ ctl' = PollPc(k)
    /\ UNCHANGED <<runErr, exitCode, log, db, notified, chanVars, srvVars,
                   ctxVars, limiter, reqVars, apiVars>>

\* The deadline case returning nil: a drain cut off by the deadline is
\* reported as a success.
ShutdownDeadlineNil(k) ==
    /\ Alive
    /\ ctl = SleepPc(k)
    /\ ctx = "done"
    /\ ShutdownResult(k, Nil)
    /\ UNCHANGED <<db, notified, chanVars, srvVars, ctx, busyAtDeadline,
                   lnerr, limiter, reqVars, apiVars>>

\* case <-ctx.Done(): return ctx.Err().
ShutdownDeadline(k) ==
    /\ Alive
    /\ ctl = SleepPc(k)
    /\ ctx = "done"
    /\ ShutdownResult(k, DeadlineExceeded)
    /\ UNCHANGED <<db, notified, chanVars, srvVars, ctx, busyAtDeadline,
                   lnerr, limiter, reqVars, apiVars>>

\* run returns an error: the deferred cancel (if the signal branch made a
\* context) and the deferred api.DB.Close run.
Defers ==
    /\ Alive
    /\ ctl = "defers"
    /\ ctx' = IF ctx = "active" THEN "canceled" ELSE ctx
    /\ db' = "closed"
    /\ ctl' = "main"
    /\ UNCHANGED <<runErr, exitCode, log, notified, chanVars, srvVars,
                   busyAtDeadline, shutRes, lnerr, limiter, reqVars, apiVars>>

\* main: if err != nil, log FATAL and os.Exit(1).
Main ==
    /\ Alive
    /\ ctl = "main"
    /\ IF runErr # NoErr
       THEN /\ log' = Append(log, FatalLog(runErr))
            /\ exitCode' = 1
       ELSE /\ exitCode' = 0
            /\ UNCHANGED log
    /\ ctl' = "exited"
    /\ UNCHANGED <<runErr, db, notified, chanVars, srvVars, ctxVars, limiter,
                   reqVars, apiVars>>

(* ------------------------- the product routes ------------------------- *)

\* The characters id parameters are made of here, and the decimal digits.
IdChars == {"0", "1", "2", "+", "-", "x"}
Digits == {"0", "1", "2", "3", "4", "5", "6", "7", "8", "9"}

DigitVal(c) ==
    CASE c = "0" -> 0 [] c = "1" -> 1 [] c = "2" -> 2 [] c = "3" -> 3
      [] c = "4" -> 4 [] c = "5" -> 5 [] c = "6" -> 6 [] c = "7" -> 7
      [] c = "8" -> 8 [] c = "9" -> 9

\* The values of the :id parameter: httprouter matches a segment that is
\* not empty.
Params == UNION {[1..n -> IdChars] : n \in 1..MaxIdLen}

\* The loop of strconv.Atoi: n = n*10 + int(ch), a syntax error at the
\* first byte that is no digit.
RECURSIVE AtoiDigits(_, _)
AtoiDigits(s, n) ==
    IF s = <<>> THEN [ok |-> TRUE, val |-> n]
    ELSE IF Head(s) \notin Digits THEN [ok |-> FALSE, val |-> 0]
    ELSE AtoiDigits(Tail(s), n * 10 + DigitVal(Head(s)))

\* strconv.Atoi(param.ByName("id")): an optional sign, then one digit or
\* more (the strings here are far too short to leave the range of int).
Atoi(s) ==
    IF s = <<>> THEN [ok |-> FALSE, val |-> 0]
    ELSE LET d == IF s[1] \in {"+", "-"} THEN Tail(s) ELSE s
             r == AtoiDigits(d, 0)
         IN  IF d = <<>> THEN [ok |-> FALSE, val |-> 0]
             ELSE IF r.ok /\ s[1] = "-" THEN [ok |-> TRUE, val |-> 0 - r.val]
             ELSE r

\* Errors of the data access.
ErrNoRows == "sql: no rows in result set"
ErrDBClosed == "sql: database is closed"
ErrBadConn == "driver: bad connection"
ErrDuplicate == "pq: duplicate key value violates unique constraint"

\* What can go wrong in the driver on an open handle: nothing, or the
\* connection is lost.
Faults == {Nil, ErrBadConn}

\* model.Product and the row AddTestData inserts as number i. Prices are
\* counted in thousandths (1.99 is 1990); the column price NUMERIC(10,2)
\* keeps two decimals, so a stored price is a multiple of 10.
Product(id, name, price) == [ID |-> id, Name |-> name, Price |-> price]
TestRow(id, i) == Product(id, <<"Product", i>>, 1990 * i)

\* What the column price NUMERIC(10,2) makes of a value: rounded to two
\* decimals, halves away from zero (the prices here are not negative).
Numeric2(price) == ((price + 5) \div 10) * 10

\* p.Get(db): SELECT name, price FROM products WHERE id=$1, scanned into p.
Get(p, fault) ==
    IF db # "open" THEN [err |-> ErrDBClosed, p |-> p]
    ELSE IF fault # Nil THEN [err |-> fault, p |-> p]
    ELSE IF \E row \in table : row.ID = p.ID
         THEN LET row == CHOOSE row \in table : row.ID = p.ID
              IN  [err |-> Nil, p |-> Product(p.ID, row.Name, row.Price)]
         ELSE [err |-> ErrNoRows, p |-> p]

\* json.Marshal of a Product (the json tags name the keys) and of
\* map[string]string{"error": message}.
MarshalProduct(p) == [id |-> p.ID, name |-> p.Name, price |-> p.Price]
MarshalError(message) == [error |-> message]

\* respondWithJSON and respondWithError: content type, status code, body.
respondWithJSON(code, body) ==
    [code |-> code, contentType |-> "application/json", body |-> body]
respondWithError(code, message) == respondWithJSON(code, MarshalError(message))

NoCall == [op |-> "none", param |-> <<>>, fault |-> Nil]
\* httptest.NewRecorder(): status 200, no Content-Type, nothing written to
\* the body yet.
EmptyBody == [empty |-> TRUE]
NoReply == [code |-> 200, contentType |-> "", body |-> EmptyBody]
NoArgs == [start |-> 0, count |-> 0]

\* Everything but the database handle and the state of the routes.
lifeVars == <<ctl, runErr, exitCode, log, notified, chanVars, srvVars, ctxVars,
              limiter, reqVars>>

\* GetProduct with the switch on sql.ErrNoRows left out: every error of the
\* data access is answered 500.
GetProductNoSwitch(param, fault) ==
    LET id == Atoi(param)
        got == Get(Product(id.val, <<>>, 0), fault)
    IN  /\ Alive
        /\ db \in {"open", "closed"}
        /\ call = NoCall
        /\ call' = [op |-> "GetProduct", param |-> param, fault |-> fault]
        /\ reply' =
             IF ~id.ok THEN respondWithError(400, "Invalid product ID")
             ELSE IF got.err # Nil THEN respondWithError(500, got.err)
             ELSE respondWithJSON(200, MarshalProduct(got.p))
        /\ UNCHANGED <<db, table, serial, manyArgs, helper, lifeVars>>

\* GET /product/:id, handler GetProduct.
GetProduct(param, fault) ==
    LET id == Atoi(param)
        got == Get(Product(id.val, <<>>, 0), fault)
    IN  /\ Alive
        /\ db \in {"open", "closed"}
        /\ call = NoCall
        /\ call' = [op |-> "GetProduct", param |-> param, fault |-> fault]
        /\ reply' =
             IF ~id.ok THEN respondWithError(400, "Invalid product ID")
             ELSE IF got.err = ErrNoRows
                  THEN respondWithError(404, "Product not found")
             ELSE IF got.err # Nil THEN respondWithError(500, got.err)
             ELSE respondWithJSON(200, MarshalProduct(got.p))
        /\ UNCHANGED <<db, table, serial, manyArgs, helper, lifeVars>>

\* The helper of the tests: none under way and what the last one returned,
\* or the one under way with the statements it has sent so far (i of n).
Returned(err) == [op |-> "none", i |-> 0, n |-> 0, err |-> err]
Running(op, i, n) == [op |-> op, i |-> i, n |-> n, err |-> Nil]

\* The ids of the rows in the table.
Ids == {row.ID : row \in table}

\* db.Exec of one statement that changes the table: the error of a closed
\* handle or a lost connection, with the statement not sent.
Exec(fault) ==
    IF db # "open" THEN ErrDBClosed
    ELSE IF fault # Nil THEN fault
    ELSE Nil

\* p.ClearTable(db), first statement: DELETE FROM products; an error is
\* returned at once.
ClearTable(fault) ==
    /\ Alive
    /\ db \in {"open", "closed"}
    /\ helper.op = "none"
    /\ IF Exec(fault) # Nil
       THEN /\ helper' = Returned(Exec(fault))
            /\ table' = table
       ELSE /\ helper' = Running("ClearTable", 1, 2)
            /\ table' = {}
    /\ UNCHANGED <<db, serial, call, reply, manyArgs, lifeVars>>

\* p.ClearTable(db), second statement: ALTER SEQUENCE products_id_seq
\* RESTART WITH 1; on an error the rows are gone and the sequence is where
\* it was.
ClearTableRestart(fault) ==
    /\ Alive
    /\ helper.op = "ClearTable"
    /\ helper' = Returned(Exec(fault))
    /\ serial' = IF Exec(fault) # Nil THEN serial ELSE 1
    /\ UNCHANGED <<db, table, call, reply, manyArgs, lifeVars>>

\* p.AddTestData(db, count): count rows to insert, one if count < 1.
AddTestData(count) ==
    /\ Alive
    /\ db \in {"open", "closed"}
    /\ helper.op = "none"
    /\ helper' = Running("AddTestData", 0, IF count < 1 THEN 1 ELSE count)
    /\ UNCHANGED <<db, table, serial, call, reply, manyArgs, lifeVars>>

\* One turn of the loop of AddTestData: INSERT INTO products(name, price)
\* of "Product i+1" priced (i+1) * 1.99 with the id the sequence hands out;
\* the first error is returned. An id that has a row already is the error
\* of the primary key, and the sequence has moved on all the same.
AddTestDataInsert(fault) ==
    /\ Alive
    /\ helper.op = "AddTestData"
    /\ IF Exec(fault) # Nil
       THEN /\ helper' = Returned(Exec(fault))
            /\ UNCHANGED <<table, serial>>
       ELSE /\ serial <= MaxRows
            /\ serial' = serial + 1
            /\ IF serial \in Ids
               THEN /\ helper' = Returned(ErrDuplicate)
                    /\ table' = table
               ELSE /\ table' = table \cup {TestRow(serial, helper.i + 1)}
                    /\ helper' = IF helper.i + 1 = helper.n
                                 THEN Returned(Nil)
                                 ELSE Running("AddTestData", helper.i + 1,
                                              helper.n)
    /\ UNCHANGED <<db, call, reply, manyArgs, lifeVars>>

\* a.DB.Close() of the tests: the handle is closed under the routes.
DBClose ==
    /\ Alive
    /\ db = "open"
    /\ db' = "closed"
    /\ UNCHANGED <<table, serial, call, reply, manyArgs, helper, lifeVars>>

\* The recorder of a request is read and a fresh one made for the next:
\* executeRequest of the tests.
NewRecorder ==
    /\ Alive
    /\ call # NoCall
    /\ call' = NoCall
    /\ reply' = NoReply
    /\ manyArgs' = NoArgs
    /\ UNCHANGED <<db, table, serial, helper, lifeVars>>

\* A value of a JSON object's key: absent, a number written as an integer
\* (2), a number written with a fraction part (2.0; in thousandths), or a
\* string (a sequence, the empty string the empty one).
JAbsent == [t |-> "absent", num |-> 0, str |-> <<>>]
JInt(i) == [t |-> "integer", num |-> 1000 * i, str |-> <<>>]
JNum(n) == [t |-> "number", num |-> n, str |-> <<>>]
JStr(s) == [t |-> "string", num |-> 0, str |-> s]

\* Request bodies: text the decoder gives an error for whatever it is to
\* fill (no JSON, or a JSON value that is neither null nor an object), the
\* JSON value null, and objects with the keys id, name and price. The ids
\* 2 and 2.0, the names "a" and 100, the prices 2.99 and 1.995.
Malformed ==
    [kind |-> "malformed", id |-> JAbsent, name |-> JAbsent, price |-> JAbsent]
Null == [kind |-> "null", id |-> JAbsent, name |-> JAbsent, price |-> JAbsent]
Bodies ==
    {Malformed, Null} \cup
    [kind : {"object"},
     id : {JAbsent, JInt(2), JNum(2000)},
     name : {JStr(<<"a">>), JInt(100)},
     price : {JNum(2990), JNum(1995)}]

\* json.NewDecoder(r.Body).Decode(&p) into a zero Product: null is no
\* error and leaves p as it is; in an object an absent key leaves the zero
\* value, id takes a number written as an integer, name a string, price
\* any number; anything else is an error.
Decode(body) ==
    LET idOk == body.id.t \in {"absent", "integer"}
        nameOk == body.name.t \in {"absent", "string"}
        priceOk == body.price.t \in {"absent", "integer", "number"}
    IN  IF body.kind = "null"
        THEN [err |-> FALSE, p |-> Product(0, <<>>, 0)]
        ELSE IF body.kind = "object" /\ idOk /\ nameOk /\ priceOk
        THEN [err |-> FALSE,
              p |-> Product(body.id.num \div 1000, body.name.str,
                            body.price.num)]
        ELSE [err |-> TRUE, p |-> Product(0, <<>>, 0)]

\* p.Post(db): INSERT INTO products(name, price) VALUES($1, $2) RETURNING id,
\* the id scanned into p; name and price of p stay what they were. An id
\* that has a row already is the error of the primary key, and the sequence
\* has moved on all the same.
Post(p, fault) ==
    IF Exec(fault) # Nil
    THEN [err |-> Exec(fault), p |-> p, table |-> table, serial |-> serial]
    ELSE IF serial \in Ids
    THEN [err |-> ErrDuplicate, p |-> p, table |-> table,
          serial |-> serial + 1]
    ELSE [err |-> Nil,
          p |-> Product(serial, p.Name, p.Price),
          table |-> table \cup {Product(serial, p.Name, Numeric2(p.Price))},
          serial |-> serial + 1]

\* handlers.CreateProduct: POST /product.
CreateProduct(body, fault) ==
    LET dec == Decode(body)
        posted == Post(dec.p, fault)
    IN  /\ Alive
        /\ db \in {"open", "closed"}
        /\ call = NoCall
        /\ serial <= MaxRows
        /\ call' = [op |-> "CreateProduct", body |-> body, fault |-> fault]
        /\ IF dec.err
           THEN /\ reply' = respondWithError(400, "Invalid request payload")
                /\ UNCHANGED <<table, serial>>
           ELSE /\ reply' = IF posted.err # Nil
                           THEN respondWithError(500, posted.err)
                           ELSE respondWithJSON(201, MarshalProduct(posted.p))
                /\ table' = posted.table
                /\ serial' = posted.serial
        /\ UNCHANGED <<db, manyArgs, helper, lifeVars>>

\* p.Put(db): UPDATE products SET name=$1, price=$2 WHERE id=$3; no row
\* with that id is no error.
Put(p, fault) ==
    IF db # "open" THEN [err |-> ErrDBClosed, table |-> table]
    ELSE IF fault # Nil THEN [err |-> fault, table |-> table]
    ELSE [err |-> Nil,
          table |-> {IF row.ID = p.ID
                     THEN Product(row.ID, p.Name, Numeric2(p.Price))
                     ELSE row : row \in table}]

\* UpdateProduct with p.ID = id left out: the product keeps the id the body
\* decoded to.
UpdateProductBodyId(param, body, fault) ==
    LET id == Atoi(param)
        dec == Decode(body)
        p == dec.p
        put == Put(p, fault)
    IN  /\ Alive
        /\ db \in {"open", "closed"}
        /\ call = NoCall
        /\ call' = [op |-> "UpdateProduct", param |-> param, body |-> body,
                    fault |-> fault]
        /\ IF ~id.ok
           THEN /\ reply' = respondWithError(400, "Invalid product ID")
                /\ table' = table
           ELSE IF dec.err
           THEN /\ reply' = respondWithError(400, "Invalid request payload")
                /\ table' = table
           ELSE IF put.err # Nil
           THEN /\ reply' = respondWithError(500, put.err)
                /\ table' = table
           ELSE /\ reply' = respondWithJSON(200, MarshalProduct(p))
                /\ table' = put.table
        /\ UNCHANGED <<db, serial, manyArgs, helper, lifeVars>>

\* handlers.UpdateProduct: PUT /product/:id.
UpdateProduct(param, body, fault) ==
    LET id == Atoi(param)
        dec == Decode(body)
        p == Product(id.val, dec.p.Name, dec.p.Price)
        put == Put(p, fault)
    IN  /\ Alive
        /\ db \in {"open", "closed"}
        /\ call = NoCall
        /\ call' = [op |-> "UpdateProduct", param |-> param, body |-> body,
                    fault |-> fault]
        /\ IF ~id.ok
           THEN /\ reply' = respondWithError(400, "Invalid product ID")
                /\ table' = table
           ELSE IF dec.err
           THEN /\ reply' = respondWithError(400, "Invalid request payload")
                /\ table' = table
           ELSE IF put.err # Nil
           THEN /\ reply' = respondWithError(500, put.err)
                /\ table' = table
           ELSE /\ reply' = respondWithJSON(200, MarshalProduct(p))
                /\ table' = put.table
        /\ UNCHANGED <<db, serial, manyArgs, helper, lifeVars>>

\* Delete with the WHERE clause left out: every row goes.
DeleteEveryRow(p, fault) ==
    IF db # "open" THEN [err |-> ErrDBClosed, table |-> table]
    ELSE IF fault # Nil THEN [err |-> fault, table |-> table]
    ELSE [err |-> Nil, table |-> {}]

\* p.Delete(db): DELETE FROM products WHERE id=$1; no row with that id is
\* no error.
Delete(p, fault) ==
    IF db # "open" THEN [err |-> ErrDBClosed, table |-> table]
    ELSE IF fault # Nil THEN [err |-> fault, table |-> table]
    ELSE [err |-> Nil, table |-> {row \in table : row.ID # p.ID}]

\* handlers.DeleteProduct: DELETE /product/:id.
DeleteProduct(param, fault) ==
    LET id == Atoi(param)
        deleted == Delete(Product(id.val, <<>>, 0), fault)
    IN  /\ Alive
        /\ db \in {"open", "closed"}
        /\ call = NoCall
        /\ call' = [op |-> "DeleteProduct", param |-> param, fault |-> fault]
        /\ IF ~id.ok
           THEN /\ reply' = respondWithError(400, "Invalid product ID")
                /\ table' = table
           ELSE IF deleted.err # Nil
           THEN /\ reply' = respondWithError(500, deleted.err)
                /\ table' = table
           ELSE /\ reply' = respondWithJSON(200, [result |-> "success"])
                /\ table' = deleted.table
        /\ UNCHANGED <<db, serial, manyArgs, helper, lifeVars>>

\* The count above which, and below 1, GetProducts takes the cap itself.
CountCap == 50

\* Values of the query keys count and start: the key absent (Get gives ""),
\* a number within the cap, one above it, a negative one, and no number.
QValues == {<<>>, <<"1">>, <<"9", "9">>, <<"-", "1">>, <<"x">>}

\* The :id of the URL of a PUT or a DELETE: two ids, one written with a
\* leading zero, and no number.
PathIds == {<<"1">>, <<"2">>, <<"0", "2">>, <<"x">>}

\* count, _ := strconv.Atoi(...): the error is dropped and the value is 0
\* when there is one.
AtoiOrZero(s) == Atoi(s).val

\* The orders in which a SELECT without ORDER BY may hand out the rows.
Orders(rows) ==
    {o \in [1..Cardinality(rows) -> rows] :
        \A i, j \in 1..Cardinality(rows) : i # j => o[i] # o[j]}

Min(a, b) == IF a < b THEN a ELSE b

\* A []Product: nil or not, and its items.
NilSlice == [nil |-> TRUE, items |-> <<>>]
Slice(items) == [nil |-> FALSE, items |-> items]

\* GetMany with var products []Product in place of products := []Product{}:
\* no row leaves the slice nil.
GetManyNilSlice(start, count, order, fault) ==
    IF db # "open" THEN [err |-> ErrDBClosed, products |-> NilSlice]
    ELSE IF fault # Nil THEN [err |-> fault, products |-> NilSlice]
    ELSE LET items == SubSeq(order, start + 1, Min(start + count, Len(order)))
         IN  [err |-> Nil,
              products |-> IF items = <<>> THEN NilSlice ELSE Slice(items)]

\* model.GetMany(db, start, count): SELECT id, name, price FROM products
\* LIMIT $1 OFFSET $2 with count and start, the rows appended to an empty,
\* non-nil slice; order is the order the database hands the rows out in.
GetMany(start, count, order, fault) ==
    IF db # "open" THEN [err |-> ErrDBClosed, products |-> NilSlice]
    ELSE IF fault # Nil THEN [err |-> fault, products |-> NilSlice]
    ELSE [err |-> Nil,
          products |-> Slice(SubSeq(order, start + 1,
                                    Min(start + count, Len(order))))]

\* json.Marshal of a []Product: null for a nil slice, else an array.
MarshalProducts(products) ==
    IF products.nil THEN [null |-> TRUE]
    ELSE [array |-> [i \in 1..Len(products.items) |->
                        MarshalProduct(products.items[i])]]

\* handlers.GetProducts: GET /products?count=..&start=..
GetProducts(countValue, startValue, fault) ==
    LET c == AtoiOrZero(countValue)
        s == AtoiOrZero(startValue)
        count == IF c > CountCap \/ c < 1 THEN CountCap ELSE c
        start == IF s < 0 THEN 0 ELSE s
    IN  /\ Alive
        /\ db \in {"open", "closed"}
        /\ call = NoCall
        /\ call' = [op |-> "GetProducts", count |-> countValue,
                    start |-> startValue, fault |-> fault]
        /\ manyArgs' = [start |-> start, count |-> count]
        /\ \E order \in Orders(table) :
              LET got == GetMany(start, count, order, fault)
              IN  reply' = IF got.err # Nil
                           THEN respondWithError(500, got.err)
                           ELSE respondWithJSON(200,
                                    MarshalProducts(got.products))
        /\ UNCHANGED <<db, table, serial, helper, lifeVars>>

(* --------------------------- specification ---------------------------- *)

Init ==
    /\ ctl = "init"
    /\ runErr = NoErr
    /\ exitCode = -1
    /\ log = <<>>
    /\ db = "nil"
    /\ notified = FALSE
    /\ sigs = <<>>
    /\ nsig = 0
    /\ errChan = <<>>
    /\ srv = "none"
    /\ listener = "none"
    /\ inShutdown = FALSE
    /\ ctx = "none"
    /\ busyAtDeadline = FALSE
    /\ shutRes = <<>>
    /\ lnerr = Nil
    /\ limiter = NoLimiter
    /\ sem = 0
    /\ pc = [r \in Reqs |-> "idle"]
    /\ resp = [r \in Reqs |-> "none"]
    /\ invoked = [r \in Reqs |-> 0]
    /\ cancelled = [r \in Reqs |-> FALSE]
    /\ table = {}
    /\ serial = 1
    /\ call = NoCall
    /\ reply = NoReply
    /\ manyArgs = NoArgs
    /\ helper = Returned(Nil)

Controller ==
    \/ Initialize
    \/ Setup
    \/ GoServe
    \/ SelectErr
    \/ SelectSig
    \/ \E k \in ShutdownCalls : ShutdownCall(k)
    \/ \E k \in ShutdownCalls : ShutdownPoll(k)
    \/ \E k \in ShutdownCalls : ShutdownTimer(k)
    \/ \E k \in ShutdownCalls : ShutdownDeadline(k)
    \/ Defers
    \/ Main

Request(r) ==
    \/ Arrive(r)
    \/ acquire(r)
    \/ NextReturn(r)
    \/ NextPanic(r)
    \/ NextHang(r)
    \/ release(r)

Next ==
    \/ Controller
    \/ ListenAndServe
    \/ DeadlineExpire
    \/ \E s \in Signals : Signal(s)
    \/ \E r \in Reqs : Request(r)

Spec == Init /\ [][Next]_vars

\* The scheduling the Go runtime guarantees: a goroutine that can take a
\* step takes it (the controller, the serving goroutine while it binds or
\* after Shutdown, a handler that returns, a release); timers fire; a
\* select whose ctx.Done() case stays ready takes it in the end; a sender
\* blocked on the semaphore channel is served when tokens keep being freed
\* (blocked senders are queued). Arrivals, signals, panics, hangs and a
\* failing Accept are the environment's choice and get no fairness.
Fairness ==
    /\ WF_vars(Initialize \/ Setup \/ GoServe \/ SelectErr \/ SelectSig
               \/ Defers \/ Main)
    /\ WF_vars(\E k \in ShutdownCalls : ShutdownCall(k) \/ ShutdownPoll(k))
    /\ WF_vars(\E k \in ShutdownCalls : ShutdownTimer(k) \/ ShutdownDeadline(k))
    /\ SF_vars(\E k \in ShutdownCalls : ShutdownDeadline(k))
    /\ WF_vars(DeadlineExpire)
    /\ WF_vars(ListenAndServe /\ (srv = "starting" \/ inShutdown))
    /\ \A r \in Reqs : /\ SF_vars(acquire(r))
                       /\ WF_vars(NextReturn(r))
                       /\ WF_vars(release(r))

FairSpec == Spec /\ Fairness

\* The process with clients that may go away while their request waits
\* for a slot.
CancelNext ==
    \/ Next
    \/ \E r \in Reqs : Cancel(r)

CancelSpec == Init /\ [][CancelNext]_vars

\* The routes as the tests drive them: Initialize has returned an App with
\* an open handle and an empty, freshly cleared products table; requests
\* go to the router one at a time.
ApiInit ==
    /\ ctl = "setup"
    /\ runErr = NoErr
    /\ exitCode = -1
    /\ log = <<>>
    /\ db = "open"
    /\ notified = FALSE
    /\ sigs = <<>>
    /\ nsig = 0
    /\ errChan = <<>>
    /\ srv = "none"
    /\ listener = "none"
    /\ inShutdown = FALSE
    /\ ctx = "none"
    /\ busyAtDeadline = FALSE
    /\ shutRes = <<>>
    /\ lnerr = Nil
    /\ limiter = MaxAllowed(MaxCap)
    /\ sem = 0
    /\ pc = [r \in Reqs |-> "idle"]
    /\ resp = [r \in Reqs |-> "none"]
    /\ invoked = [r \in Reqs |-> 0]
    /\ cancelled = [r \in Reqs |-> FALSE]
    /\ table = {}
    /\ serial = 1
    /\ call = NoCall
    /\ reply = NoReply
    /\ manyArgs = NoArgs
    /\ helper = Returned(Nil)

ApiNext ==
    \/ \E fault \in Faults : ClearTable(fault)
    \/ \E fault \in Faults : ClearTableRestart(fault)
    \/ \E count \in 0..MaxRows : AddTestData(count)
    \/ \E fault \in Faults : AddTestDataInsert(fault)
    \/ DBClose
    \/ \E param \in Params, fault \in Faults : GetProduct(param, fault)
    \/ \E body \in Bodies, fault \in Faults : CreateProduct(body, fault)
    \/ \E param \in PathIds, body \in Bodies, fault \in Faults :
          UpdateProduct(param, body, fault)
    \/ \E param \in PathIds, fault \in Faults : DeleteProduct(param, fault)
    \/ \E countValue, startValue \in QValues, fault \in Faults :
          GetProducts(countValue, startValue, fault)
    \/ NewRecorder

ApiSpec == ApiInit /\ [][ApiNext]_vars

(* ------------------------- shared predicates -------------------------- *)

InLog(line) == \E i \in 1..Len(log) : log[i] = line

\* The signal branch of the select was taken.
SigTaken == InLog(SignalLog)

Exited == exitCode # -1

Waiting == {r \in Reqs : pc[r] = "acquire"}

\* A wrapped handler that did not return: it panicked, or it hangs.
HandlerFailed == \E r \in Reqs : pc[r] = "hung" \/ resp[r] = "recovery"

(* ------------------------------ claims -------------------------------- *)

\* C1: for a capacity N >= 1 the requests that hold a slot (inside the
\* wrapped handler) number between 0 and N, and never more than the tokens
\* in the channel, which never exceed N; while N slots are held no acquire
\* can pass; a release can always pass.
C1_SlotsBounded ==
    limiter.cap >= 1 =>
        /\ Cardinality(Inside) >= 0
        /\ Cardinality(Inside) <= limiter.cap
        /\ Cardinality(Inside) <= sem
        /\ sem <= limiter.cap
        /\ \A r \in Reqs :
              (pc[r] = "acquire" /\ Cardinality(Inside) = limiter.cap)
                  => ~ENABLED acquire(r)
        /\ \A r \in Reqs : (Alive /\ pc[r] = "release") => ENABLED release(r)

\* C1's case: all N slots held, one holder about to release, a request
\* blocked in acquire.
C1_Witness ==
    /\ limiter.cap >= 1
    /\ Cardinality(Inside) = limiter.cap
    /\ Waiting # {}
    /\ \E r \in Reqs : pc[r] = "release"

\* C2: every acquire is followed by exactly one release on every exit path
\* of the wrapped handler, a panic included: once all requests have ended
\* no slot is held (the channel is empty).
C2_ReleasedOnEveryExit ==
    (\A r \in Reqs : pc[r] \in {"idle", "done"}) => sem = 0

\* C3: with capacity N >= 1 and every admitted handler returning, a request
\* waiting in acquire eventually has the wrapped handler invoked; the only
\* ways out of that are a handler that panicked or hangs, or the end of the
\* process.
C3_WaitersProceed ==
    \A r \in Reqs :
        (pc[r] = "acquire" /\ limiter.cap >= 1)
            ~> (invoked[r] = 1 \/ HandlerFailed \/ Exited)

\* C3's case: capacity 1 and three requests, one has released, the next
\* holds the slot and has had the handler invoked, the third still waits.
C3_Witness ==
    /\ Alive /\ ~HandlerFailed
    /\ limiter.cap = 1
    /\ Waiting # {}
    /\ \E r1, r2 \in Reqs :
          /\ pc[r1] = "done" /\ resp[r1] = "handler"
          /\ pc[r2] = "next" /\ invoked[r2] = 1

\* "Shutdown signal received" is logged before "Server gracefully stopped".
SignalBeforeStopped ==
    \E i, j \in 1..Len(log) : i < j /\ log[i] = SignalLog /\ log[j] = StoppedLog

\* C4 (safety part): when the process has ended after taking the signal
\* branch and no request was in flight when the deadline passed (each one
\* completed before it), the exit status is 0, no request is left without
\* its complete response and the two log lines appear in order.
C4_Safe ==
    (Exited /\ SigTaken /\ ~busyAtDeadline) =>
        /\ exitCode = 0
        /\ InFlight = {}
        /\ SignalBeforeStopped

\* C4: a signal taken while requests are in flight that all complete before
\* the 5 second deadline ends in exit status 0 with every response complete
\* and the log lines in order; and once the signal is taken the process
\* does exit.
C4_GracefulExit == [](C4_Safe) /\ (SigTaken ~> Exited)

\* C4's case: the process exited 0 although the first Shutdown call had to
\* wait for requests in flight (it even ran into the deadline after they
\* had all completed), none being in flight at the deadline.
C4_Witness ==
    /\ exitCode = 0
    /\ ~busyAtDeadline
    /\ shutRes = <<DeadlineExceeded, Nil>>
    /\ \E r \in Reqs : pc[r] = "done"

HungReq == \E r \in Reqs : pc[r] = "hung"

\* C5 (safety part): with a handler that never returns the process never
\* exits 0 and never logs "Server gracefully stopped"; if it ends after the
\* signal branch was taken, the deadline has passed and it ends with
\* status 1 and the fatal "server could not shutdown".
C5_Safe ==
    /\ HungReq => (exitCode # 0 /\ ~InLog(StoppedLog))
    /\ (HungReq /\ SigTaken /\ Exited) =>
          /\ exitCode = 1
          /\ ctx = "done"
          /\ runErr = Wrap(DeadlineExceeded, "server could not shutdown")
          /\ InLog(FatalLog(runErr))

\* C5: a signal that arrives while a handler never returns still ends the
\* process, with a non-zero status, never with 0 or the graceful log line.
C5_ForcedExit ==
    /\ [](C5_Safe)
    /\ (HungReq /\ (SigTaken \/ sigs # <<>>)) ~> (exitCode = 1)

\* C5's case: a hung handler, the signal branch taken, the process ended 1.
C5_Witness == HungReq /\ SigTaken /\ exitCode = 1

\* C6: if a Shutdown call returned an error, the process ends with the
\* fatal "server could not shutdown" and status 1, without the graceful
\* log line.
C6_ShutdownErrorFatal ==
    (Exited /\ \E i \in 1..Len(shutRes) : shutRes[i] # Nil) =>
        /\ exitCode = 1
        /\ runErr.stage = "server could not shutdown"
        /\ ~InLog(StoppedLog)

\* The errors of ListenAndServe other than the sentinel.
ServeErrors == {BindErr, AcceptErr}

\* C7 (safety part): ErrServerClosed is never the cause of an error run
\* returns; "http server error" carries an error of ListenAndServe and is
\* returned only when no signal was handled; the process then ends with
\* status 1 after main logged it.
C7_Safe ==
    /\ runErr.cause # ErrServerClosed
    /\ runErr.stage = "http server error" =>
          (runErr.cause \in ServeErrors /\ ~SigTaken)
    /\ (Exited /\ runErr.stage = "http server error") =>
          (exitCode = 1 /\ InLog(FatalLog(runErr)))

\* C7: an error of ListenAndServe other than ErrServerClosed, waiting on
\* errChan, leads to run returning it wrapped as "http server error", main
\* logging it and exit status 1, unless the signal branch is taken first.
C7_ServeErrorFatal ==
    /\ [](C7_Safe)
    /\ \A e \in ServeErrors :
          (errChan # <<>> /\ Head(errChan) = e)
              ~> \/ SigTaken
                 \/ /\ exitCode = 1
                    /\ runErr = Wrap(e, "http server error")
                    /\ InLog(FatalLog(runErr))

\* C7's case: the process ended 1 on a failed Accept reported as "http
\* server error".
C7_Witness ==
    /\ exitCode = 1
    /\ runErr = Wrap(AcceptErr, "http server error")
    /\ InLog(FatalLog(runErr))

\* C8: status 0 only after the signal branch was taken and the (checked)
\* Shutdown call returned nil; an error of run is one of the three stages,
\* each with its event: Initialize failed, the select received an error of
\* ListenAndServe other than the sentinel, or the checked Shutdown call
\* returned an error; status 1 exactly when run returned an error.
C8_ExitStatus ==
    /\ exitCode \in {-1, 0, 1}
    /\ exitCode = 0 =>
          (SigTaken /\ Len(shutRes) = 2 /\ shutRes[2] = Nil /\ runErr = NoErr)
    /\ exitCode = 1 => runErr # NoErr
    /\ (Exited /\ runErr # NoErr) => exitCode = 1
    /\ runErr # NoErr =>
          \/ /\ runErr.stage = "initialization error"
             /\ runErr.cause \in InitFailures
             /\ srv = "none"
          \/ /\ runErr.stage = "http server error"
             /\ runErr.cause \in ServeErrors
             /\ srv = "returned"
          \/ /\ runErr.stage = "server could not shutdown"
             /\ Len(shutRes) = 2
             /\ shutRes[2] # Nil
             /\ runErr.cause = shutRes[2]

\* C8's case: the process ended 0 after both Shutdown calls.
C8_Witness == exitCode = 0 /\ SigTaken /\ Len(shutRes) = 2

\* C9: MaxAllowed(0) reports an error and returns no handler.
C9_ZeroRejected ==
    (limiter # NoLimiter /\ limiter.cap = 0) => limiter.kind = "error"

\* C10: the limiter never answers a request itself: a request that has not
\* passed acquire has no response and its handler was not invoked; a
\* request past acquire had the wrapped handler invoked exactly once; a
\* response is written by the handlers or by Recovery, never by the limiter.
C10_NeverRejects ==
    \A r \in Reqs :
        /\ resp[r] \in {"none", "handler", "recovery"}
        /\ pc[r] \in {"idle", "acquire"} => (invoked[r] = 0 /\ resp[r] = "none")
        /\ pc[r] \notin {"idle", "acquire"} => invoked[r] = 1

\* C10's case: the limiter at capacity with a request waiting, after
\* another request went through the handler once.
C10_Witness ==
    /\ limiter.cap >= 1
    /\ sem = limiter.cap
    /\ Waiting # {}
    /\ \E r \in Reqs : pc[r] = "done" /\ invoked[r] = 1

\* The steps of one request through the wrapper, in program order.
WrapperOrder ==
    {<<"idle", "acquire">>, <<"acquire", "next">>, <<"next", "release">>,
     <<"next", "hung">>, <<"next", "done">>, <<"release", "done">>}

\* C11 (one step): each request moves through the wrapper in program
\* order; the step that starts its handler is the one that put its token in
\* the channel, and it needs a free slot; a token leaves the channel only
\* in the release step of a request whose handler has returned.
C11_Step ==
    /\ \A r \in Reqs :
          /\ pc'[r] # pc[r] => <<pc[r], pc'[r]>> \in WrapperOrder
          /\ (pc[r] = "acquire" /\ pc'[r] = "next") =>
                (sem < limiter.cap /\ sem' = sem + 1)
          /\ (pc[r] = "release" /\ pc'[r] = "done") =>
                (resp[r] = "handler" /\ invoked[r] = 1 /\ sem' = sem - 1)
    /\ sem' < sem =>
          \E r \in Reqs : pc[r] = "release" /\ pc'[r] = "done"
    /\ sem' > sem =>
          \E r \in Reqs : pc[r] = "acquire" /\ pc'[r] = "next"

\* C11: in every step the slot is acquired before the wrapped handler
\* starts and released only after it returned; a request that found the
\* channel full passes acquire only once a holder's release freed a slot.
C11_AcquireBeforeRelease == [][C11_Step]_vars

\* C11's case: capacity 1, one request has gone through handler and
\* release, and a later one took the freed slot, ran its handler and is
\* about to release in turn.
C11_Witness ==
    /\ limiter.cap = 1
    /\ sem = 1
    /\ \E r1, r2 \in Reqs :
          /\ pc[r1] = "done" /\ resp[r1] = "handler"
          /\ pc[r2] = "release" /\ resp[r2] = "handler"

\* An error of ListenAndServe has been reported: it waits on errChan or run
\* has returned it.
Reported(e) ==
    \/ \E i \in 1..Len(errChan) : errChan[i] = e
    \/ runErr.cause = e

\* C12: a failure to bind the listener is reported before the run loop is
\* entered, as an initialization error: it never travels on errChan to the
\* select of the run loop and is never labelled as the serving loop's
\* runtime errors are ("http server error").
C12_BindFailureSynchronous ==
    Reported(BindErr) =>
        /\ ctl \notin {"select"}
        /\ \A i \in 1..Len(errChan) : errChan[i] # BindErr
        /\ runErr.cause = BindErr => runErr.stage = "initialization error"

\* C13 (safety part): once Initialize has failed, the cause is one of its
\* three failures, the serving goroutine was never started, no listener
\* exists, nothing was sent on errChan, no request was accepted or answered,
\* and the process does not exit 0; when it has exited, the status is 1
\* after main logged the error.
C13_Safe ==
    runErr.stage = "initialization error" =>
        /\ runErr.cause \in InitFailures
        /\ srv = "none" /\ listener = "none" /\ ~inShutdown
        /\ errChan = <<>> /\ ~notified
        /\ \A r \in Reqs : pc[r] = "idle" /\ resp[r] = "none" /\ invoked[r] = 0
        /\ ~InLog(StartingLog)
        /\ exitCode # 0
        /\ Exited => (exitCode = 1 /\ InLog(FatalLog(runErr)))

\* C13: a failed Initialize makes run return "initialization error" before
\* the serving goroutine is started: ListenAndServe is never called, no
\* request is ever served, and the process does exit, with status 1.
C13_InitFailureFatal ==
    /\ [](C13_Safe)
    /\ \A why \in InitFailures :
          (runErr = Wrap(why, "initialization error")) ~> (exitCode = 1)

\* C13's case: the database ping failed and the process has ended 1.
C13_Witness ==
    /\ exitCode = 1
    /\ runErr = Wrap("error pinging database", "initialization error")
    /\ InLog(FatalLog(runErr))

\* How many times the signal branch of the select was taken.
SigBranchCount == Cardinality({i \in 1..Len(log) : log[i] = SignalLog})

\* C14 (state part): the signal branch was taken at most once; the server
\* is in shutdown only through it; a server error that ended run started
\* no shutdown at all.
C14_Safe ==
    /\ SigBranchCount <= 1
    /\ (inShutdown \/ ctx # "none" \/ shutRes # <<>>) => SigTaken
    /\ runErr.stage = "http server error" =>
          (~inShutdown /\ ctx = "none" /\ shutRes = <<>>)

\* C14 (one step): the controller enters the shutdown branch only when it
\* has not been there before; the server passes into shutdown only in the
\* first Shutdown call of that branch and never leaves it; the deadline
\* context is made once.
C14_Step ==
    /\ (ctl' = "shutdown1" /\ ctl # "shutdown1") =>
          (~SigTaken /\ ~inShutdown /\ ctx = "none" /\ shutRes = <<>>)
    /\ (inShutdown' /\ ~inShutdown) => ctl = "shutdown1"
    /\ inShutdown => inShutdown'
    /\ (ctx' = "active" /\ ctx # "active") => ctx = "none"

\* C14: graceful shutdown of the server is initiated at most once in every
\* execution, whatever signals and server errors arrive.
C14_ShutdownOnce == [](C14_Safe) /\ [][C14_Step]_vars

\* C14's case: the process ended after the shutdown branch while a second
\* signal and an error of the serving goroutine were still pending.
C14_Witness ==
    /\ Exited /\ SigTaken
    /\ nsig = 2 /\ sigs # <<>>
    /\ errChan # <<>>

\* The stage messages run wraps its errors with.
Stages == {"initialization error", "http server error",
           "server could not shutdown"}

\* The FATAL lines of the log.
FatalLines == {i \in 1..Len(log) : log[i].level = "FATAL"}

\* C15 (state part): a non-zero exit status is 1 and then the log holds
\* exactly one FATAL line, its last, carrying the stage and the cause of
\* the error run returned; a FATAL line is only ever followed by that
\* exit; once run has an error to return the server accepts nothing.
C15_Safe ==
    /\ exitCode \notin {-1, 0} => exitCode = 1
    /\ exitCode = 1 =>
          /\ Cardinality(FatalLines) = 1
          /\ log[Len(log)] = FatalLog(runErr)
          /\ runErr.stage \in Stages
          /\ runErr.cause \notin {"", Nil, ErrServerClosed}
          /\ ctl = "exited"
    /\ FatalLines # {} => exitCode = 1
    /\ runErr # NoErr => (listener # "open" /\ ctl \in {"defers", "main", "exited"})

\* C15 (one step): the process ends with a non-zero status only in main,
\* after run returned an error, and that step logs the FATAL line; a step
\* inside run that ends the process ends it with 0 and no error; after an
\* error the error stays and the server is not started or bound again.
C15_Step ==
    /\ (exitCode' # exitCode /\ exitCode' # 0) =>
          /\ ctl = "main" /\ runErr # NoErr
          /\ exitCode' = 1
          /\ log' = Append(log, FatalLog(runErr))
    /\ (exitCode' # exitCode /\ ctl # "main") => (exitCode' = 0 /\ runErr = NoErr)
    /\ log' # log /\ ctl # "main" => Cardinality(FatalLines') = 0
    /\ runErr # NoErr =>
          /\ runErr' = runErr
          /\ srv' = "starting" => srv = "starting"
          /\ listener' = "open" => listener = "open"

\* C15: every non-zero exit is preceded by exactly one FATAL log line with
\* the failing stage and its cause, written by main after run returned;
\* run never ends the process itself on an error path; after a fatal error
\* the server is never started again.
C15_FatalLoggedOnce == [](C15_Safe) /\ [][C15_Step]_vars

\* C15's case: the process ended 1 on a Shutdown that ran into the
\* deadline, with the one FATAL line naming stage and cause.
C15_Witness ==
    /\ exitCode = 1
    /\ log[Len(log)] =
          LogLine("FATAL", "server could not shutdown", DeadlineExceeded)
    /\ Cardinality(FatalLines) = 1

\* The server lifecycle state, read off the program's state: Stopped once
\* the process has ended, Draining once Shutdown has put the server in
\* shutdown, Running once the listener was bound, Starting before that.
Lifecycle ==
    IF Exited THEN "Stopped"
    ELSE IF inShutdown THEN "Draining"
    ELSE IF listener # "none" THEN "Running"
    ELSE "Starting"

LifecycleRank(st) ==
    CASE st = "Starting" -> 0
      [] st = "Running" -> 1
      [] st = "Draining" -> 2
      [] st = "Stopped" -> 3

\* C16 (one step): a change of the lifecycle state goes forward in the
\* order Starting, Running, Draining, Stopped; Running is entered from
\* Starting by the step that binds the listener; Draining is entered from
\* Running.
C16_Step ==
    Lifecycle' # Lifecycle =>
        /\ LifecycleRank(Lifecycle') > LifecycleRank(Lifecycle)
        /\ Lifecycle' = "Running" =>
              (Lifecycle = "Starting" /\ srv = "starting" /\ listener' = "open")
        /\ Lifecycle' = "Draining" => Lifecycle = "Running"

\* C16: the lifecycle state moves only along Starting, Running, Draining,
\* Stopped: Running only from Starting on a successful bind, Draining only
\* from Running, Stopped final, no state re-entered, also when the signal
\* arrives before the serving goroutine has bound the listener.
C16_LifecycleOrder == [][C16_Step]_vars

\* Requests whose wrapped handler is executing (it may use the database).
Executing == {r \in Reqs : pc[r] \in {"next", "hung"}}

\* C17: the database handle is closed only after the drain has completed:
\* while it is closed in a live process the server is not accepting and no
\* request handler is executing.
C17_DbClosedAfterDrain ==
    (Alive /\ db = "closed") => (listener # "open" /\ Executing = {})

\* C19 (state part): at the select the error branch can be taken exactly
\* when errChan holds an error and the signal branch exactly when sigs
\* holds a signal, whatever the other channel holds: with one event pending
\* only its branch can be taken, with both either can, with none the loop
\* blocks. The outcome follows the branch: "http server error" means the
\* signal branch was never taken and nothing was drained; a taken signal
\* branch means no "http server error" and an end after both Shutdown calls.
C19_Safe ==
    /\ (Alive /\ ctl = "select") =>
          /\ ENABLED SelectErr <=> errChan # <<>>
          /\ ENABLED SelectSig <=> sigs # <<>>
    /\ runErr.stage = "http server error" =>
          (~SigTaken /\ ~inShutdown /\ shutRes = <<>>)
    /\ SigTaken =>
          /\ runErr.stage # "http server error"
          /\ Exited => Len(shutRes) = 2

\* C19 (one step): the controller leaves the select either by the error
\* branch, receiving the head of errChan and leaving sigs alone, or by the
\* signal branch, receiving from sigs and leaving errChan alone.
C19_Step ==
    (ctl = "select" /\ ctl' # "select") =>
        \/ /\ ctl' = "defers"
           /\ errChan # <<>> /\ errChan' = Tail(errChan) /\ sigs' = sigs
           /\ runErr' = Wrap(Head(errChan), "http server error")
        \/ /\ ctl' = "shutdown1"
           /\ sigs # <<>> /\ sigs' = Tail(sigs) /\ errChan' = errChan
           /\ runErr' = runErr

\* C19: the run loop waits on errChan and sigs with no priority; the
\* branch taken first alone decides between the end by fatal server error
\* without drain and the end by drain.
C19_NoPriority == [](C19_Safe) /\ [][C19_Step]_vars

\* C19's case: an error of the serving goroutine was on errChan, the
\* signal branch was taken all the same and the process ended 0.
C19_Witness ==
    /\ exitCode = 0
    /\ errChan # <<>> /\ Head(errChan) \in ServeErrors

\* C18: a request whose client went away while it waited for a slot
\* abandons the wait: it never enters the wrapped handler and takes no
\* slot.
C18_CancelledAbandons ==
    \A r \in Reqs :
        cancelled[r] => (invoked[r] = 0 /\ pc[r] \in {"acquire", "done"})

\* A string that writes an integer in decimal: an optional sign and then
\* digits only, at least one.
C20_IsInteger(s) ==
    \E k \in 0..1 :
        /\ Len(s) > k
        /\ k = 1 => s[1] \in {"+", "-"}
        /\ \A i \in (k + 1)..Len(s) : s[i] \in Digits

RECURSIVE C20_Pow10(_)
C20_Pow10(k) == IF k = 0 THEN 1 ELSE 10 * C20_Pow10(k - 1)

RECURSIVE C20_Weighted(_, _)
C20_Weighted(s, i) ==
    IF i > Len(s) THEN 0
    ELSE IF s[i] \in Digits
         THEN DigitVal(s[i]) * C20_Pow10(Len(s) - i) + C20_Weighted(s, i + 1)
         ELSE C20_Weighted(s, i + 1)

\* The integer such a string writes: its digits weighted by position,
\* negated after a minus sign.
C20_Value(s) ==
    IF s[1] = "-" THEN 0 - C20_Weighted(s, 1) ELSE C20_Weighted(s, 1)

\* C20 (one step): a GET /product/:id leaves table, sequence and handle as
\* they were and answers in JSON: 400 "Invalid product ID" for an id that
\* is no integer; else 500 with the error text when the data access fails
\* (closed handle, lost connection); else 404 "Product not found" when no
\* row has the id; else 200 with the id, name and price of the row.
C20_Step ==
    (call'.op = "GetProduct" /\ <<call', reply'>> # <<call, reply>>) =>
        LET s == call'.param
            f == call'.fault
            rows == {row \in table : row.ID = C20_Value(s)}
        IN  /\ table' = table /\ serial' = serial /\ db' = db
            /\ reply'.contentType = "application/json"
            /\ ~C20_IsInteger(s) =>
                  reply' = respondWithJSON(400, [error |-> "Invalid product ID"])
            /\ (C20_IsInteger(s) /\ db = "closed") =>
                  reply' = respondWithJSON(500, [error |-> ErrDBClosed])
            /\ (C20_IsInteger(s) /\ db = "open" /\ f # Nil) =>
                  reply' = respondWithJSON(500, [error |-> f])
            /\ (C20_IsInteger(s) /\ db = "open" /\ f = Nil /\ rows = {}) =>
                  reply' = respondWithJSON(404, [error |-> "Product not found"])
            /\ (C20_IsInteger(s) /\ db = "open" /\ f = Nil /\ rows # {}) =>
                  \E row \in rows :
                      reply' = respondWithJSON(200,
                                  [id |-> C20_Value(s), name |-> row.Name,
                                   price |-> row.Price])

\* C20: GET /product/:id responds 400, 404, 500 or 200 as the id, the
\* table and the data access decide, and never changes the product table.
C20_GetProduct == [][C20_Step]_vars

\* C20's case: the id "01" was read as 1 and product 1 was returned with
\* status 200.
C20_Witness ==
    /\ call = [op |-> "GetProduct", param |-> <<"0", "1">>, fault |-> Nil]
    /\ reply = respondWithJSON(200,
                   [id |-> 1, name |-> <<"Product", 1>>, price |-> 1990])

\* C26 (state part): whether a waiting request can pass acquire depends on
\* the channel alone, in every state of the lifecycle.
C26_Safe ==
    \A r \in Reqs :
        (Alive /\ pc[r] = "acquire") => (ENABLED acquire(r) <=> sem < limiter.cap)

\* C26 (one step): a step of the lifecycle (a signal delivered or taken, a
\* Shutdown call starting, polling or returning, the deadline expiring)
\* leaves the channel and every request where they were; a waiting request
\* leaves the wait only by putting its token in a channel with a free slot
\* and entering the handler.
C26_Step ==
    /\ (ctl # "init" /\ <<ctl, sigs, nsig, ctx, inShutdown, shutRes, lnerr>>'
                           # <<ctl, sigs, nsig, ctx, inShutdown, shutRes, lnerr>>)
          => UNCHANGED <<limiter, sem, pc, resp, invoked, cancelled>>
    /\ \A r \in Reqs :
          (pc[r] = "acquire" /\ pc'[r] # "acquire") =>
              /\ pc'[r] = "next"
              /\ sem < limiter.cap /\ sem' = sem + 1
              /\ invoked'[r] = 1

\* C26: the lifecycle actions leave the slot pool unchanged: they release
\* no held slot and neither wake nor cancel a request waiting in acquire,
\* which leaves the wait only by acquiring a free slot.
C26_LifecycleFrame == [](C26_Safe) /\ [][C26_Step]_vars

\* C26's case: the server is draining, the deadline has passed, and a
\* request still waits for the slot another request holds.
C26_Witness ==
    /\ Alive /\ inShutdown /\ ctx = "done"
    /\ limiter.cap >= 1 /\ sem = limiter.cap
    /\ Waiting # {}

\* Requests whose wrapped handler panicked.
Panicked == {r \in Reqs : resp[r] = "recovery"}

\* C27 (state part): the tokens in the channel are those of the requests
\* inside the wrapper plus one for every panic so far; with as many panics
\* as slots (N >= 1) nothing is inside the wrapper and no request can pass
\* acquire.
C27_Safe ==
    /\ sem = Cardinality(Inside) + Cardinality(Panicked)
    /\ (limiter.cap >= 1 /\ Cardinality(Panicked) >= limiter.cap) =>
          /\ sem = limiter.cap
          /\ Inside = {}
          /\ \A r \in Reqs : ~ENABLED acquire(r)

\* C27 (one step): the step of a panic keeps the token in the channel, and
\* a panicked request stays panicked; once N panics have happened no
\* request is handed to the handlers any more.
C27_Step ==
    /\ \A r \in Reqs :
          /\ (resp[r] # "recovery" /\ resp'[r] = "recovery") => sem' = sem
          /\ resp[r] = "recovery" => resp'[r] = "recovery"
    /\ (limiter.cap >= 1 /\ Cardinality(Panicked) >= limiter.cap) =>
          invoked' = invoked

\* C27: each panic of a wrapped handler removes one slot of MaxAllowed(N)
\* for good; after N panics every later request blocks in acquire and no
\* request reaches the handlers again.
C27_PanicsLeakSlots == [](C27_Safe) /\ [][C27_Step]_vars

\* C27's case: capacity 2, two handlers panicked, a third request waits.
C27_Witness ==
    /\ Alive
    /\ limiter.cap = 2
    /\ Cardinality(Panicked) = 2
    /\ Waiting # {}

\* C28 (state part): while the controller is at the select the server is
\* not in shutdown and errChan holds no ErrServerClosed; before the select
\* nothing was received or shut down.
C28_Safe ==
    /\ ctl = "select" =>
          /\ ~inShutdown /\ ~SigTaken /\ runErr = NoErr
          /\ \A i \in 1..Len(errChan) : errChan[i] # ErrServerClosed
    /\ (\E i \in 1..Len(errChan) : errChan[i] = ErrServerClosed) =>
          (inShutdown /\ SigTaken)

\* C28 (one step): the select is entered only from the go statement; a
\* receive at the select always leaves it, for the return of the error
\* branch or for the shutdown branch; while the controller stays at the
\* select nothing is received.
C28_Step ==
    /\ (ctl # "select" /\ ctl' = "select") => (ctl = "go" /\ srv = "none")
    /\ (ctl = "select" /\ ctl' = "select") =>
          (Len(errChan') >= Len(errChan) /\ Len(sigs') >= Len(sigs))
    /\ (ctl = "select" /\ ctl' # "select") => ctl' \in {"defers", "shutdown1"}
    /\ (ctl \notin {"init", "setup", "go", "select"}) =>
          (Len(errChan') >= Len(errChan) /\ Len(sigs') >= Len(sigs))

\* C28: the select of the run loop is executed at most once: the branch
\* that would loop, a received ErrServerClosed, cannot be reached, because
\* the sentinel exists only after Shutdown and the signal branch never
\* comes back to the select.
C28_SelectOnce == [](C28_Safe) /\ [][C28_Step]_vars

\* C28's case: the process has ended after the signal branch and the
\* ErrServerClosed of the serving goroutine lies unread on errChan.
C28_Witness ==
    /\ Exited /\ SigTaken
    /\ \E i \in 1..Len(errChan) : errChan[i] = ErrServerClosed

\* C29 (state part): at most two Shutdown calls return, and two when the
\* process ended through the signal branch; the status is 0 exactly when
\* the second returned nil, whatever the first returned; once the first
\* has returned the deadline error the one context is done for the second
\* too; and if requests are still in flight when the process ends, so that
\* no poll of the second call found the connections idle, the second has
\* returned the deadline error and the process ends with status 1.
C29_Safe ==
    /\ Len(shutRes) <= 2
    /\ (Exited /\ SigTaken) =>
          /\ Len(shutRes) = 2
          /\ exitCode = 0 <=> shutRes[2] = Nil
          /\ exitCode = 1 <=> shutRes[2] # Nil
    /\ (shutRes # <<>> /\ shutRes[1] = DeadlineExceeded) => ctx = "done"
    /\ (Exited /\ shutRes # <<>> /\ shutRes[1] = DeadlineExceeded
           /\ InFlight # {}) =>
          /\ shutRes = <<DeadlineExceeded, DeadlineExceeded>>
          /\ exitCode = 1
          /\ runErr = Wrap(DeadlineExceeded, "server could not shutdown")
    /\ (Exited /\ shutRes # <<>> /\ shutRes[1] = DeadlineExceeded
           /\ InFlight = {}) =>
          shutRes[2] \in {Nil, DeadlineExceeded}

\* C29 (one step): the deadline context is made once, in the step that
\* takes the signal branch, and an expired context never runs again; the
\* second call returns nil only from a poll that finds no request in
\* flight.
C29_Step ==
    /\ (ctx' = "active" /\ ctx # "active") => (ctx = "none" /\ ctl = "select")
    /\ ctx = "done" => ctx' = "done"
    /\ (Len(shutRes) = 1 /\ Len(shutRes') = 2 /\ shutRes'[2] = Nil) =>
          (InFlight = {} /\ ctl = PollPc(2))

\* C29 as amended: the signal branch calls Shutdown twice under the one 5
\* second context and drops the first result, so the whole drain is bounded
\* by a single deadline; when the first call ends by the deadline and the
\* requests do not complete before the second call returns, the second
\* reports the deadline error too and the process exits non-zero; when they
\* complete before a poll of the second call, it returns nil and the
\* process exits 0.
C29_TwoCallsOneDeadline == [](C29_Safe) /\ [][C29_Step]_vars

\* The first Shutdown call has just ended by the deadline with requests
\* still in flight: the second call has not been entered yet.
C29_FirstEndedBusy ==
    /\ ctl = CallPc(2)
    /\ shutRes = <<DeadlineExceeded>>
    /\ InFlight # {}

\* C29 as stated: when the first call ends by deadline expiry with requests
\* still in flight, the second call also reports the deadline error and the
\* process exits non-zero.
C29_SecondAlsoDeadline ==
    [](C29_FirstEndedBusy =>
          [](Exited => (shutRes = <<DeadlineExceeded, DeadlineExceeded>>
                           /\ exitCode = 1)))

\* C29's case: a request still in flight, both calls returned the deadline
\* error, the process ended 1.
C29_Witness ==
    /\ exitCode = 1
    /\ shutRes = <<DeadlineExceeded, DeadlineExceeded>>
    /\ InFlight # {}

\* C30 (state part): once the signal branch was taken it was taken once,
\* and the exit status follows the second Shutdown call alone, whether or
\* not another signal lies on the channel.
C30_Safe ==
    /\ SigTaken => SigBranchCount = 1
    /\ (Exited /\ SigTaken) =>
          /\ Len(shutRes) = 2
          /\ exitCode = (IF shutRes[2] = Nil THEN 0 ELSE 1)
          /\ shutRes[2] \in {Nil, DeadlineExceeded}

\* C30 (one step): after the signal branch was taken, the delivery of a
\* signal changes the signal channel and nothing else, and nothing is ever
\* received from that channel.
C30_Step ==
    SigTaken =>
        /\ Len(sigs') >= Len(sigs)
        /\ nsig' # nsig =>
              UNCHANGED <<ctlVars, errChan, srvVars, ctxVars, limiter, reqVars>>
        /\ log' # log => log' \in {Append(log, StoppedLog),
                                   Append(log, FatalLog(runErr))}

\* C30: a second SIGINT or SIGTERM delivered while the controller drains
\* has no effect: it is never read from the channel, starts no other
\* shutdown, and changes neither the drain nor the exit status.
C30_SecondSignalIgnored == [](C30_Safe) /\ [][C30_Step]_vars

\* C30's case: the process ended 0 after the drain with a second signal
\* lying unread on the channel.
C30_Witness ==
    /\ exitCode = 0
    /\ nsig = 2
    /\ Len(sigs) = 1

(* ------------------------ claims: product routes ---------------------- *)

\* A step of one route handler: the request it was called with and the
\* response it wrote are recorded by the step.
C21_Handled(op) == call'.op = op /\ <<call', reply'>> # <<call, reply>>

\* The data access of a request fails: the handle is closed or the
\* connection is lost.
C21_Failing == db # "open" \/ call'.fault # Nil

\* The INSERT of a POST fails: the data access does, or the id the sequence
\* hands out has a row already (the primary key refuses it).
C21_InsertFails == C21_Failing \/ serial \in Ids

\* One POST /product step as the claim describes it.
C21_Step ==
    C21_Handled("CreateProduct") =>
        LET dec == Decode(call'.body)
        IN  /\ dec.err =>
                /\ reply' = respondWithError(400, "Invalid request payload")
                /\ table' = table
            /\ ~dec.err /\ C21_InsertFails =>
                /\ reply'.code = 500
                /\ table' = table
            /\ ~dec.err /\ ~C21_InsertFails =>
                \E row \in table' :
                    /\ row \notin table
                    /\ \A old \in table : old.ID # row.ID
                    /\ table' = table \cup {row}
                    /\ table = {} /\ serial = 1 => row.ID = 1
                    /\ reply' = respondWithJSON(201, MarshalProduct(row))

\* C21: POST /product with a body that decodes stores exactly one new
\* product and responds 201 with the stored name and price and the id the
\* table assigned (1 for the first product after the table was cleared);
\* a body that does not decode is answered 400 'Invalid request payload'
\* and failing data access 500, and both store nothing.
C21_CreateProduct == [][C21_Step]_vars

\* One PUT /product/:id step: the id of the URL is parsed first, then the
\* body; the row with the id of the URL takes the name and the price of the
\* body (the price as the column keeps it), every other row stays, and the
\* response carries the id of the URL with the name and price of the body.
C22_Step ==
    C21_Handled("UpdateProduct") =>
        LET id == Atoi(call'.param)
            dec == Decode(call'.body)
        IN  /\ ~id.ok =>
                /\ reply' = respondWithError(400, "Invalid product ID")
                /\ table' = table
            /\ id.ok /\ dec.err =>
                /\ reply' = respondWithError(400, "Invalid request payload")
                /\ table' = table
            /\ id.ok /\ ~dec.err /\ ~C21_Failing =>
                /\ reply' = respondWithJSON(200,
                       [id |-> id.val, name |-> dec.p.Name,
                        price |-> dec.p.Price])
                /\ \A row \in table : row.ID # id.val => row \in table'
                /\ \A row \in table' :
                       \/ row \in table /\ row.ID # id.val
                       \/ /\ \E old \in table : old.ID = id.val
                          /\ row = Product(id.val, dec.p.Name,
                                           Numeric2(dec.p.Price))
                /\ (\E old \in table : old.ID = id.val) =>
                       \E row \in table' : row.ID = id.val

\* C22: PUT /product/:id with a decodable body updates the product with
\* the id of the URL, whatever id the body names, and responds 200 with
\* that id and the new name and price; a non-integer id is answered 400
\* 'Invalid product ID' whatever the body is, and an undecodable body 400
\* 'Invalid request payload' with the table as it was.
C22_UpdateProduct == [][C22_Step]_vars

\* Product 1 of two was updated by a PUT to /product/1 whose body names
\* the id 2: the response says id 1, row 1 has the new name and row 2 is
\* the test row it was.
C22_Witness ==
    /\ call.op = "UpdateProduct"
    /\ call.param = <<"1">>
    /\ call.body.id = JInt(2)
    /\ reply.code = 200
    /\ reply.body = [id |-> 1, name |-> <<"a">>, price |-> 1995]
    /\ Product(1, <<"a">>, 2000) \in table
    /\ TestRow(2, 2) \in table

\* The ids of the rows in a table.
C23_Ids(rows) == {row.ID : row \in rows}

\* One step, seen from the products table:
\*  - a DELETE with an integer id and working data access answers 200 with
\*    result 'success', takes the row with that id away and leaves every
\*    other row as it was;
\*  - a DELETE with a non-integer id answers 400 and deletes nothing;
\*  - a GET with working data access answers 404 exactly when no row has
\*    the id;
\*  - an id comes into the table only when the sequence hands it out to a
\*    newly created product.
C23_Step ==
    /\ C21_Handled("DeleteProduct") =>
           LET id == Atoi(call'.param)
           IN  /\ ~id.ok =>
                   /\ reply' = respondWithError(400, "Invalid product ID")
                   /\ table' = table
               /\ id.ok /\ ~C21_Failing =>
                   /\ reply' = respondWithJSON(200, [result |-> "success"])
                   /\ id.val \notin C23_Ids(table')
                   /\ \A row \in table : row.ID # id.val => row \in table'
                   /\ table' \subseteq table
    /\ C21_Handled("GetProduct") /\ Atoi(call'.param).ok /\ ~C21_Failing =>
           (reply'.code = 404 <=> Atoi(call'.param).val \notin C23_Ids(table))
    /\ \A n \in C23_Ids(table') \ C23_Ids(table) :
           /\ serial <= n
           /\ n < serial'
           /\ \/ C21_Handled("CreateProduct") /\ reply'.code = 201
              \/ <<call', reply'>> = <<call, reply>>

\* C23: once DELETE /product/:id has answered 200 'success' the id has no
\* row, a GET of it answers 404 for as long as it has none, and it gets one
\* again only by a product being created with that id; the DELETE touches
\* no other product, and a non-integer id is answered 400 'Invalid product
\* ID' and deletes nothing.
C23_DeleteProduct == [][C23_Step]_vars

\* The ids 1 and 2 were handed out, product 1 has been deleted, and a GET
\* of /product/1 was answered 404 while product 2 is the row it was.
C23_Witness ==
    /\ call = [op |-> "GetProduct", param |-> <<"1">>, fault |-> Nil]
    /\ reply = respondWithError(404, "Product not found")
    /\ db = "open"
    /\ serial = 3
    /\ table = {TestRow(2, 2)}

\* The count the handler's description gives as the default.
C24_DefaultCount == 10

\* One GET /products step without count and start: GetMany is called with
\* start 0 and count 10.
C24_Step ==
    C21_Handled("GetProducts") /\ call'.count = <<>> /\ call'.start = <<>> =>
        manyArgs' = [start |-> 0, count |-> C24_DefaultCount]

\* C24: GET /products without count and start parameters asks the table
\* for the first 10 products: start defaults to 0 and count to 10.
C24_Defaults == [][C24_Step]_vars

\* One GET /products step with working data access, whatever count and
\* start are: the answer is 200; GetMany is asked for a count within
\* 1..CountCap (the one given when it is a number in that range) and a
\* start that is not negative; the body is an array, also when there is no
\* row, of at most that many products, each a row of the table and none
\* twice.
C25_Step ==
    C21_Handled("GetProducts") /\ ~C21_Failing =>
        LET c == Atoi(call'.count)
            s == Atoi(call'.start)
            body == reply'.body
        IN  /\ reply'.code = 200
            /\ reply'.contentType = "application/json"
            /\ manyArgs'.count \in 1..CountCap
            /\ c.ok /\ c.val \in 1..CountCap => manyArgs'.count = c.val
            /\ manyArgs'.start >= 0
            /\ s.ok /\ s.val >= 0 => manyArgs'.start = s.val
            /\ ~s.ok \/ s.val < 0 => manyArgs'.start = 0
            /\ DOMAIN body = {"array"}
            /\ Len(body.array) <= manyArgs'.count
            /\ Len(body.array) <= Cardinality(table)
            /\ \A i \in 1..Len(body.array) :
                   \E row \in table : body.array[i] = MarshalProduct(row)
            /\ \A i, j \in 1..Len(body.array) :
                   i # j => body.array[i] # body.array[j]
            /\ table = {} => body = [array |-> <<>>]

\* C25: GET /products answers 200 for every count and start (count above
\* the cap or below 1, values that are no numbers, a negative start): the
\* effective count is within 1..cap, a negative start counts as 0, the
\* response holds at most the effective count of products, and on an empty
\* table the body is the empty array, never null.
C25_GetProducts == [][C25_Step]_vars

\* GET /products?count=99&start=-1 on an empty table was answered 200 with
\* the empty array, GetMany having been asked for 50 products from 0.
C25_Witness ==
    /\ call = [op |-> "GetProducts", count |-> <<"9", "9">>,
               start |-> <<"-", "1">>, fault |-> Nil]
    /\ db = "open"
    /\ table = {}
    /\ manyArgs = [start |-> 0, count |-> CountCap]
    /\ reply = respondWithJSON(200, [array |-> <<>>])
====
